---- MODULE Spec2Model ----
(***************************************************************************)
(* Model of deactivate_user.py: the resumable batch loop that reads user   *)
(* rows from a CSV export, validates them, calls the Airtable API once per *)
(* user and records each success in deactivated.txt.                       *)
(*                                                                         *)
(* Python values are modelled as records [t, v]: t is the Python type      *)
(* ("none", "int", "str"), v the characters of a str (a sequence of        *)
(* one-character strings).                                                 *)
(***************************************************************************)
EXTENDS Integers, Sequences, FiniteSets, TLC

\* ---------------------------------------------------------------- bounds
\* Rows the Record Source yields in one behaviour (all runs together), at most.
MaxRows == 3
\* Runs of the tool in one behaviour, at most.
MaxRuns == 2

\* ---------------------------------------------------------------- values
None == [t |-> "none", v |-> <<>>]
\* A value that is neither None nor a str.
NonStr == [t |-> "int", v |-> <<>>]
Str(s) == [t |-> "str", v |-> s]
\* A cell of a row whose key is not in the mapping at all.
Absent == [t |-> "absent", v |-> <<>>]

\* str.rstrip() strips these (the model's alphabet holds two of them).
Whitespace == {" ", "\n"}

\* ------------------------------------------------------------ inputs
\* The identifiers the inputs use: two plain ones, one that ends in a
\* space, one with an embedded line break, the empty string, and None.
IdVals ==
  { Str(<<"a">>), Str(<<"b">>), Str(<<"a", " ">>), Str(<<"a", "\n", "b">>),
    Str(<<>>), None }

Row(id, fn, ln, em) ==
  [ID |-> id, first_name |-> fn, last_name |-> ln, email |-> em]

\* Rows of the main specification: every identifier with three valid
\* fields, and rows that are invalid in each field and in each way.
InputRows ==
  { Row(id, Str(<<"x">>), Str(<<"x">>), Str(<<"x">>)) : id \in IdVals }
  \cup { Row(Str(<<"a">>), None, Str(<<"x">>), Str(<<"x">>)),
         Row(Str(<<"b">>), Str(<<"x">>), Absent, Str(<<"x">>)),
         Row(Str(<<"b">>), Str(<<"x">>), Str(<<"x">>), NonStr) }

\* Rows of the specification without faults: a valid row with a plain id,
\* one with the id None, and the three invalid rows.
LiveRows ==
  { Row(id, Str(<<"x">>), Str(<<"x">>), Str(<<"x">>)) :
      id \in {Str(<<"a">>), Str(<<"b">>), None} }
  \cup {r \in InputRows :
          r.first_name.t # "str" \/ r.last_name.t # "str" \/ r.email.t # "str"}

\* The answers of the remote service: no response at all (the transport
\* failed), or a status code and a body that parses as JSON or does not
\* (the unparsable body with one success status and one error status).
Statuses == {100, 200, 204, 304, 404, 500}
TransportError == [kind |-> "transport_error", status |-> 0, json_ok |-> FALSE]
NoResponse == [kind |-> "none", status |-> 0, json_ok |-> FALSE]
Responses ==
  {TransportError}
  \cup { [kind |-> "response", status |-> s, json_ok |-> TRUE] : s \in Statuses }
  \cup { [kind |-> "response", status |-> s, json_ok |-> FALSE] : s \in {200, 404} }

\* ------------------------------------------------------------ state
VARIABLES
  DEACTIVATED_USERS,  \* the file deactivated.txt: [exists, data]
  cached_processed,   \* list of str loaded at the start of the run
  deactivated_users,  \* ids that succeeded in this run
  failed,             \* the users that could not be processed in this run
  user,               \* the User of the current iteration
  response,           \* what requests.patch returned in the current call
  error,              \* the exception deactivate_user raised, "ok" or "none"
  pc,                 \* where the process is
  summary,            \* what the final prints reported
  runs,               \* runs started so far
  nrows,              \* rows read in this run
  rowsRead,           \* history: rows read in all runs
  source,             \* history: the Users built from the rows of this run
  states,             \* history: the final state of each record of this run
  calls,              \* history: ids deactivate_user was invoked with, this run
  requests,           \* history: ids a PATCH request was sent for, this run
  succeededEver,      \* history: ids whose call returned success, any run
  recorded,           \* history: ids appended to the file, any run, in order
  interrupted,        \* history: runs that ended between a success and its append
  ledgerAtStart,      \* history: the file's data when this run started
  fpos,               \* the file position the open of the else clause gave
  reported,           \* the field the validation message of this iteration names
  other               \* a second process of the tool, while it is not scheduled

vars ==
  << DEACTIVATED_USERS, cached_processed, deactivated_users, failed, user,
     response, error, pc, summary, runs, nrows, rowsRead, source, states,
     calls, requests, succeededEver, recorded, interrupted, ledgerAtStart,
     fpos, reported, other >>

\* What belongs to one process: its memory, its position and its history.
Context(cp, du, fl, us, rs, er, p, sm, nr, so, st, ca, rq, las, fp, rep) ==
  [ cached_processed |-> cp, deactivated_users |-> du, failed |-> fl,
    user |-> us, response |-> rs, error |-> er, pc |-> p, summary |-> sm,
    nrows |-> nr, source |-> so, states |-> st, calls |-> ca,
    requests |-> rq, ledgerAtStart |-> las, fpos |-> fp, reported |-> rep ]

\* The variables of one run's process memory and its per-run history.
NoUser == [id |-> None, first_name |-> None, last_name |-> None, email |-> None]
NoSummary == [printed |-> FALSE, succeeded |-> 0, failed |-> 0]

\* A process that has not started.
IdleContext ==
  Context(<<>>, <<>>, <<>>, NoUser, NoResponse, "none", "idle", NoSummary,
          0, <<>>, <<>>, <<>>, <<>>, <<>>, 0, "none")

\* -------------------------------------------------------- pure functions
\* Mapping.get(key): None when the key is absent.
RowGet(row, key) == IF row[key] = Absent THEN None ELSE row[key]

\* User.__init__
User(row) ==
  [ id |-> RowGet(row, "ID"),
    first_name |-> RowGet(row, "first_name"),
    last_name |-> RowGet(row, "last_name"),
    email |-> RowGet(row, "email") ]

\* str.rstrip()
RECURSIVE rstrip(_)
rstrip(s) ==
  IF s = <<>> THEN s
  ELSE IF s[Len(s)] \in Whitespace THEN rstrip(SubSeq(s, 1, Len(s) - 1))
  ELSE s

\* Index of the first line break of data, or 0.
RECURSIVE FirstBreak(_, _)
FirstBreak(data, i) ==
  IF i > Len(data) THEN 0
  ELSE IF data[i] = "\n" THEN i
  ELSE FirstBreak(data, i + 1)

\* Iterating a text file: the lines, each with its line break.
RECURSIVE FileLines(_)
FileLines(data) ==
  IF data = <<>> THEN <<>>
  ELSE LET i == FirstBreak(data, 1) IN
       IF i = 0 THEN <<data>>
       ELSE <<SubSeq(data, 1, i)>> \o FileLines(SubSeq(data, i + 1, Len(data)))

load_cached_processed(file) ==
  IF file.exists
  THEN LET lines == FileLines(file.data) IN
       [i \in 1..Len(lines) |-> rstrip(lines[i])]
  ELSE <<>>

\* Mutant of InCached: the User object, not its id, is looked up in the
\* list of strings, so nothing is ever found.
InCached_UserObject(id, cached) == FALSE

\* user.id in cached_processed
InCached(id, cached) ==
  /\ id.t = "str"
  /\ \E i \in 1..Len(cached) : cached[i] = id.v

\* x is None or not isinstance(x, str)
IsInvalidField(x) == x = None \/ x.t # "str"

\* Mutant of Validate: last_name is checked before email.
Validate_LastNameBeforeEmail(u) ==
  IF IsInvalidField(u.first_name) THEN "first_name"
  ELSE IF IsInvalidField(u.last_name) THEN "last_name"
  ELSE IF IsInvalidField(u.email) THEN "email"
  ELSE "valid"

\* Mutant of Validate: the last_name check is missing.
Validate_NoLastName(u) ==
  IF IsInvalidField(u.first_name) THEN "first_name"
  ELSE IF IsInvalidField(u.email) THEN "email"
  ELSE "valid"

\* The three checks of the loop, in their order.
Validate(u) ==
  IF IsInvalidField(u.first_name) THEN "first_name"
  ELSE IF IsInvalidField(u.email) THEN "email"
  ELSE IF IsInvalidField(u.last_name) THEN "last_name"
  ELSE "valid"

\* Mutant of RaisesForStatus: only server errors raise.
RaisesForStatus_Only5xx(status) == 500 <= status /\ status < 600

\* Response.raise_for_status(): raises for 4xx and 5xx.
RaisesForStatus(status) == 400 <= status /\ status < 600

\* Mutant of DeactivateResult: the error of response.json() is not swallowed.
DeactivateResult_ParseErrorRaises(u, r) ==
  IF u.id.t # "str" THEN "TypeError"
  ELSE IF r.kind = "transport_error" THEN "UnboundLocalError"
  ELSE IF ~r.json_ok THEN "HTTPError"
  ELSE IF RaisesForStatus(r.status) THEN "HTTPError"
  ELSE "ok"

\* What deactivate_user does with the answer r for user u: "ok" when it
\* returns, else the exception that leaves it.
\*   - url concatenation with a None id raises TypeError before the try;
\*   - requests.patch raising leaves `response` unbound, so the handler's
\*     log.error raises UnboundLocalError in place of the transport error;
\*   - response.json() failing is swallowed by the bare except;
\*   - raise_for_status decides the rest.
DeactivateResult(u, r) ==
  IF u.id.t # "str" THEN "TypeError"
  ELSE IF r.kind = "transport_error" THEN "UnboundLocalError"
  ELSE IF RaisesForStatus(r.status) THEN "HTTPError"
  ELSE "ok"

\* Mutant of CaughtByExcept: the clause names requests' HTTPError only.
CaughtByExcept_OnlyHTTPError(err) == err = "HTTPError"

\* except Exception: every exception that can leave deactivate_user is an
\* Exception (TypeError, UnboundLocalError, requests' HTTPError).
CaughtByExcept(err) == err \in {"TypeError", "UnboundLocalError", "HTTPError"}

\* Mutant of AppendLine: the file is opened with 'w' and truncated.
AppendLine_Truncating(file, id) ==
  [exists |-> TRUE, data |-> id.v \o <<"\n">>]

\* Mutant of AppendLine: the new line is written at the start of the file.
AppendLine_Prepending(file, id) ==
  [exists |-> TRUE, data |-> id.v \o <<"\n">> \o file.data]

\* Mutant of AppendLine: the line terminator is not written.
AppendLine_NoTerminator(file, id) ==
  [exists |-> TRUE, data |-> file.data \o id.v]

\* open(DEACTIVATED_USERS, 'a'); fp.write(f"{user.id}\n")
AppendLine(file, id) ==
  [exists |-> TRUE, data |-> file.data \o id.v \o <<"\n">>]

\* write(2) of bytes at offset off of a file: what is there is overwritten,
\* the file grows as needed.
WriteAt(data, off, bytes) ==
  SubSeq(data, 1, off) \o bytes \o SubSeq(data, off + Len(bytes) + 1, Len(data))

\* Mutant of WriteOffset: the file is opened without O_APPEND ('r+' and a
\* seek to the end), so the write goes where the end was at the open.
WriteOffset_AtOpenPosition(data, posAtOpen) == posAtOpen

\* Where the write of a file opened with 'a' (O_APPEND) goes: the end of
\* the file at the time of the write, whatever the position at the open.
WriteOffset(data, posAtOpen) == Len(data)

\* bool(csv.DictReader(f)): the class defines neither __bool__ nor __len__.
DictReaderIsTruthy == TRUE

\* ------------------------------------------------------------ actions
Init ==
  /\ DEACTIVATED_USERS = [exists |-> FALSE, data |-> <<>>]
  /\ cached_processed = <<>>
  /\ deactivated_users = <<>>
  /\ failed = <<>>
  /\ user = NoUser
  /\ response = NoResponse
  /\ error = "none"
  /\ pc = "idle"
  /\ summary = NoSummary
  /\ runs = 0
  /\ nrows = 0
  /\ rowsRead = 0
  /\ source = <<>>
  /\ states = <<>>
  /\ calls = <<>>
  /\ requests = <<>>
  /\ succeededEver = {}
  /\ recorded = <<>>
  /\ interrupted = 0
  /\ ledgerAtStart = <<>>
  /\ fpos = 0
  /\ reported = "none"
  /\ other = IdleContext

Running == pc \in {"loop", "call", "except", "else", "write"}
Ended == ~Running

\* deactivate_user_from_csv up to the loop: the ledger is loaded once.
StartRun ==
  /\ Ended
  /\ runs < MaxRuns
  /\ runs' = runs + 1
  /\ cached_processed' = load_cached_processed(DEACTIVATED_USERS)
  /\ deactivated_users' = <<>>
  /\ failed' = <<>>
  /\ user' = NoUser
  /\ response' = NoResponse
  /\ error' = "none"
  /\ summary' = NoSummary
  /\ nrows' = 0
  /\ source' = <<>>
  /\ states' = <<>>
  /\ calls' = <<>>
  /\ requests' = <<>>
  /\ ledgerAtStart' = DEACTIVATED_USERS.data
  /\ pc' = "loop"
  /\ UNCHANGED <<DEACTIVATED_USERS, rowsRead, succeededEver, recorded, interrupted>>
  /\ reported' = "none"
  /\ UNCHANGED <<fpos, other>>

\* One iteration up to the call: the generator yields a row, the User is
\* built, a ledgered id is skipped and the three fields are validated.
FetchRow(rows) ==
  /\ pc = "loop"
  /\ rowsRead < MaxRows
  /\ \E row \in rows :
       LET u == User(row) IN
       /\ nrows' = nrows + 1
       /\ rowsRead' = rowsRead + 1
       /\ source' = Append(source, u)
       /\ IF ~DictReaderIsTruthy
          THEN /\ pc' = "aborted"
               /\ error' = "Exception"
               /\ reported' = "none"
               /\ UNCHANGED <<user, failed, states>>
          ELSE IF InCached(u.id, cached_processed)
          THEN /\ states' = Append(states, "skipped")
               /\ reported' = "none"
               /\ UNCHANGED <<user, failed, pc, error>>
          ELSE IF Validate(u) # "valid"
          THEN /\ failed' = Append(failed, u)
               /\ states' = Append(states, "invalid")
               /\ reported' = Validate(u)
               /\ UNCHANGED <<user, pc, error>>
          ELSE /\ user' = u
               /\ pc' = "call"
               /\ reported' = "none"
               /\ UNCHANGED <<failed, states, error>>
  /\ UNCHANGED << DEACTIVATED_USERS, cached_processed, deactivated_users,
                  response, summary, runs, calls, requests, succeededEver,
                  recorded, interrupted, ledgerAtStart >>
  /\ UNCHANGED <<fpos, other>>

\* The generator is exhausted: the two final prints.
EndOfInput ==
  /\ pc = "loop"
  /\ IF nrows = 0 /\ ~DictReaderIsTruthy
     THEN /\ pc' = "aborted"
          /\ error' = "Exception"
          /\ UNCHANGED summary
     ELSE /\ pc' = "done"
          /\ summary' = [printed |-> TRUE,
                         succeeded |-> Len(deactivated_users),
                         failed |-> Len(failed)]
          /\ UNCHANGED error
  /\ UNCHANGED << DEACTIVATED_USERS, cached_processed, deactivated_users,
                  failed, user, response, runs, nrows, rowsRead, source,
                  states, calls, requests, succeededEver, recorded,
                  interrupted, ledgerAtStart >>
  /\ UNCHANGED <<fpos, other, reported>>

\* deactivate_user(user, account_id), and deactivated_users.append when it
\* returns; an exception goes to the except clause when that catches it.
DeactivateUser ==
  /\ pc = "call"
  /\ calls' = Append(calls, user.id)
  /\ \E r \in Responses :
       LET res == DeactivateResult(user, r) IN
       /\ error' = res
       /\ IF res = "TypeError"
          THEN /\ r = TransportError
               /\ response' = NoResponse
               /\ UNCHANGED requests
          ELSE /\ response' = r
               /\ requests' = Append(requests, user.id)
       /\ IF res = "ok"
          THEN /\ deactivated_users' = Append(deactivated_users, user.id)
               /\ succeededEver' = succeededEver \cup {user.id}
               /\ pc' = "else"
          ELSE /\ pc' = IF CaughtByExcept(res) THEN "except" ELSE "aborted"
               /\ UNCHANGED <<deactivated_users, succeededEver>>
  /\ UNCHANGED << DEACTIVATED_USERS, cached_processed, failed, user, summary,
                  runs, nrows, rowsRead, source, states, recorded, interrupted,
                  ledgerAtStart >>
  /\ UNCHANGED <<fpos, other, reported>>

\* except Exception: print, failed.append(user)
ExceptHandler ==
  /\ pc = "except"
  /\ failed' = Append(failed, user)
  /\ states' = Append(states, "failed")
  /\ user' = NoUser
  /\ response' = NoResponse
  /\ error' = "none"
  /\ pc' = "loop"
  /\ UNCHANGED << DEACTIVATED_USERS, cached_processed, deactivated_users,
                  summary, runs, nrows, rowsRead, source, calls, requests,
                  succeededEver, recorded, interrupted, ledgerAtStart >>
  /\ UNCHANGED <<fpos, other, reported>>

\* else: the id is appended to deactivated.txt and the file is closed.
LedgerAppend ==
  /\ pc = "else"
  /\ DEACTIVATED_USERS' = AppendLine(DEACTIVATED_USERS, user.id)
  /\ recorded' = Append(recorded, user.id)
  /\ states' = Append(states, "succeeded")
  /\ user' = NoUser
  /\ response' = NoResponse
  /\ error' = "none"
  /\ pc' = "loop"
  /\ UNCHANGED << cached_processed, deactivated_users, failed, summary, runs,
                  nrows, rowsRead, source, calls, requests, succeededEver,
                  interrupted, ledgerAtStart >>
  /\ UNCHANGED <<fpos, other, reported>>

\* Mutant of LedgerAppendFails: the write sits inside the try, so the
\* except clause takes the OSError as a failure of the record.
LedgerAppendFails_Caught ==
  /\ pc = "else"
  /\ failed' = Append(failed, user)
  /\ states' = Append(states, "failed")
  /\ interrupted' = interrupted + 1
  /\ user' = NoUser
  /\ response' = NoResponse
  /\ error' = "none"
  /\ pc' = "loop"
  /\ UNCHANGED << DEACTIVATED_USERS, cached_processed, deactivated_users,
                  summary, runs, nrows, rowsRead, source, calls, requests,
                  succeededEver, recorded, ledgerAtStart >>
  /\ UNCHANGED <<fpos, other, reported>>

\* else: open() or write() raises OSError, nothing is written, and the
\* exception leaves deactivate_user_from_csv.
LedgerAppendFails ==
  /\ pc = "else"
  /\ error' = "OSError"
  /\ pc' = "aborted"
  /\ interrupted' = interrupted + 1
  /\ response' = NoResponse
  /\ UNCHANGED << DEACTIVATED_USERS, cached_processed, deactivated_users,
                  failed, user, summary, runs, nrows, rowsRead, source,
                  states, calls, requests, succeededEver, recorded,
                  ledgerAtStart >>
  /\ UNCHANGED <<fpos, other, reported>>

\* The process is killed in the middle of a run: its memory is gone, the
\* file stays as it is. deactivated_users is kept as the history of the run.
Crash ==
  /\ Running
  /\ pc' = "crashed"
  /\ interrupted' = IF pc = "else" THEN interrupted + 1 ELSE interrupted
  /\ cached_processed' = <<>>
  /\ failed' = <<>>
  /\ user' = NoUser
  /\ response' = NoResponse
  /\ error' = "none"
  /\ nrows' = 0
  /\ source' = <<>>
  /\ states' = <<>>
  /\ calls' = <<>>
  /\ requests' = <<>>
  /\ UNCHANGED << DEACTIVATED_USERS, deactivated_users, summary, runs,
                  rowsRead, succeededEver, recorded, ledgerAtStart >>
  /\ reported' = "none"
  /\ UNCHANGED <<fpos, other>>

\* ------------------------------------------- two processes on one file
\* The else clause in two steps, for runs that share the file with another
\* process: open(DEACTIVATED_USERS, 'a') creates the file and positions at
\* its end; fp.write fills the buffer and leaving the with block flushes
\* it in one write(2).
LedgerOpen ==
  /\ pc = "else"
  /\ DEACTIVATED_USERS' = [DEACTIVATED_USERS EXCEPT !.exists = TRUE]
  /\ fpos' = Len(DEACTIVATED_USERS.data)
  /\ pc' = "write"
  /\ UNCHANGED << cached_processed, deactivated_users, failed, user, response,
                  error, summary, runs, nrows, rowsRead, source, states, calls,
                  requests, succeededEver, recorded, interrupted,
                  ledgerAtStart, other, reported >>

LedgerWrite ==
  /\ pc = "write"
  /\ DEACTIVATED_USERS' =
       [DEACTIVATED_USERS EXCEPT
          !.data = WriteAt(@, WriteOffset(@, fpos), user.id.v \o <<"\n">>)]
  /\ recorded' = Append(recorded, user.id)
  /\ states' = Append(states, "succeeded")
  /\ user' = NoUser
  /\ response' = NoResponse
  /\ error' = "none"
  /\ fpos' = 0
  /\ pc' = "loop"
  /\ UNCHANGED << cached_processed, deactivated_users, failed, summary, runs,
                  nrows, rowsRead, source, calls, requests, succeededEver,
                  interrupted, ledgerAtStart, other, reported >>

\* The scheduler suspends the process and resumes the other one.
Switch ==
  /\ other' = Context(cached_processed, deactivated_users, failed, user,
                      response, error, pc, summary, nrows, source, states,
                      calls, requests, ledgerAtStart, fpos, reported)
  /\ cached_processed' = other.cached_processed
  /\ deactivated_users' = other.deactivated_users
  /\ failed' = other.failed
  /\ user' = other.user
  /\ response' = other.response
  /\ error' = other.error
  /\ pc' = other.pc
  /\ summary' = other.summary
  /\ nrows' = other.nrows
  /\ source' = other.source
  /\ states' = other.states
  /\ calls' = other.calls
  /\ requests' = other.requests
  /\ ledgerAtStart' = other.ledgerAtStart
  /\ fpos' = other.fpos
  /\ reported' = other.reported
  /\ UNCHANGED << DEACTIVATED_USERS, runs, rowsRead, succeededEver, recorded,
                  interrupted >>

\* Rows of the two-process specification: valid rows with plain ids and one
\* invalid row.
ConcRows ==
  { Row(id, Str(<<"x">>), Str(<<"x">>), Str(<<"x">>)) :
      id \in {Str(<<"a">>), Str(<<"b">>)} }
  \cup { Row(Str(<<"a">>), None, Str(<<"x">>), Str(<<"x">>)) }

ConcNext ==
  \/ StartRun
  \/ FetchRow(ConcRows)
  \/ EndOfInput
  \/ DeactivateUser
  \/ ExceptHandler
  \/ LedgerOpen
  \/ LedgerWrite
  \/ Switch

\* Two processes of the tool, interleaved step by step, on one file.
ConcSpec == Init /\ [][ConcNext]_vars

\* ------------------------------------------------ every field combination
\* What a cell of a required field can be: no such key, a value that is not
\* a string, the empty string, a non-empty string.
FieldVals == {Absent, NonStr, Str(<<>>), Str(<<"x">>)}

FieldRows ==
  { Row(Str(<<"a">>), fn, ln, em) : fn \in FieldVals, ln \in FieldVals, em \in FieldVals }

\* The first row read is any combination of the three fields, the rows
\* after it are plain valid rows.
ValidatorRows ==
  IF rowsRead = 0 THEN FieldRows
  ELSE { Row(id, Str(<<"x">>), Str(<<"x">>), Str(<<"x">>)) :
           id \in {Str(<<"a">>), Str(<<"b">>)} }

ValidatorNext ==
  \/ StartRun
  \/ FetchRow(ValidatorRows)
  \/ EndOfInput
  \/ DeactivateUser
  \/ ExceptHandler
  \/ LedgerAppend

ValidatorSpec == Init /\ [][ValidatorNext]_vars

\* The steps of a running process.
RunStep ==
  \/ FetchRow(LiveRows)
  \/ EndOfInput
  \/ DeactivateUser
  \/ ExceptHandler
  \/ LedgerAppend

Next ==
  \/ StartRun
  \/ FetchRow(InputRows)
  \/ EndOfInput
  \/ DeactivateUser
  \/ ExceptHandler
  \/ LedgerAppend
  \/ LedgerAppendFails
  \/ Crash

Spec == Init /\ [][Next]_vars

\* Runs in which the process is not killed and the file system does not
\* fail: a started process keeps executing and the input is finite.
NextNoFault ==
  \/ StartRun
  \/ FetchRow(LiveRows)
  \/ EndOfInput
  \/ DeactivateUser
  \/ ExceptHandler
  \/ LedgerAppend

LiveSpec == Init /\ [][NextNoFault]_vars /\ WF_vars(RunStep)

TypeOK ==
  /\ pc \in {"idle", "loop", "call", "except", "else", "write", "done",
             "aborted", "crashed"}
  /\ nrows \in 0..MaxRows
  /\ rowsRead \in 0..MaxRows
  /\ runs \in 0..MaxRuns

\* ------------------------------------------------- vocabulary of the claims
Range(seq) == {seq[i] : i \in 1..Len(seq)}

\* How often id occurs in a sequence of ids.
CountOf(seq, x) == Cardinality({i \in 1..Len(seq) : seq[i] = x})

IsPrefix(p, q) == Len(p) <= Len(q) /\ SubSeq(q, 1, Len(p)) = p

AllButLast(seq) == IF seq = <<>> THEN <<>> ELSE SubSeq(seq, 1, Len(seq) - 1)

\* What appending the ids of a sequence, one after the other, writes.
RECURSIVE EntriesOf(_)
EntriesOf(ids) ==
  IF ids = <<>> THEN <<>>
  ELSE Head(ids).v \o <<"\n">> \o EntriesOf(Tail(ids))

\* The file holds the line of id: id and a line terminator, at a line start.
HasEntry(data, id) ==
  \E k \in 0..Len(data) :
    /\ k = 0 \/ data[k] = "\n"
    /\ k + Len(id.v) + 1 <= Len(data)
    /\ SubSeq(data, k + 1, k + Len(id.v) + 1) = id.v \o <<"\n">>

\* The identifiers the file holds, one per line, as written.
LedgerIds(data) ==
  LET lines == FileLines(data) IN
  { Str(SubSeq(lines[i], 1, Len(lines[i]) - 1)) : i \in 1..Len(lines) }

\* The identifiers proper: non-empty strings.
Identifiers == {id \in IdVals : id.t = "str" /\ id.v # <<>>}

\* All three required fields are strings.
HasValidFields(u) ==
  u.first_name.t = "str" /\ u.last_name.t = "str" /\ u.email.t = "str"

\* ---------------------------------------------------------------- C1
\* C1 (as claimed): when a run has completed, no call was issued for an
\* identifier of the ledger loaded at its start, and exactly one call was
\* issued for each identifier that is not in that ledger and has a valid
\* record in the input, also when the identifier is on several rows.
C1_IdempotentRerun ==
  pc = "done" =>
    \A id \in Identifiers :
      /\ InCached(id, cached_processed) => CountOf(calls, id) = 0
      /\ ( /\ ~InCached(id, cached_processed)
           /\ \E i \in 1..Len(source) :
                source[i].id = id /\ HasValidFields(source[i]) )
         => CountOf(calls, id) = 1

\* ---------------------------------------------------------------- C2
\* C2: a step that reads a record with first_name, last_name or email None
\* or not a string, whose id is not in the loaded ledger, ends the record
\* at once: it is appended to the Failure Collection, deactivate_user is
\* not invoked, no request is sent and the ledger file is unchanged.
C2_ValidationGate ==
  [][ Len(source') = Len(source) + 1 =>
        LET u == source'[Len(source')] IN
        (~HasValidFields(u) /\ ~InCached(u.id, cached_processed)) =>
          /\ failed' = Append(failed, u)
          /\ pc' = "loop"
          /\ UNCHANGED <<calls, requests, DEACTIVATED_USERS, recorded,
                         deactivated_users>> ]_vars

C2_Witness ==
  /\ pc = "loop"
  /\ states # <<>>
  /\ states[Len(states)] = "invalid"
  /\ failed # <<>>
  /\ ~HasValidFields(failed[Len(failed)])
  /\ calls = <<>>

\* ---------------------------------------------------------------- C3
\* C3: whenever the loop is between records (or at the call or the except
\* clause of a later record, or done), every id that succeeded in this run
\* has its line in the file; in every state, also after a crash or a failed
\* append, every id that succeeded in this run but the most recent one has
\* its line in the file, and the file still begins with what it held when
\* the run started.
C3_AppendDurability ==
  /\ pc \in {"loop", "call", "except", "done"} =>
       \A i \in 1..Len(deactivated_users) :
         HasEntry(DEACTIVATED_USERS.data, deactivated_users[i])
  /\ \A i \in 1..(Len(deactivated_users) - 1) :
       HasEntry(DEACTIVATED_USERS.data, deactivated_users[i])
  /\ IsPrefix(ledgerAtStart, DEACTIVATED_USERS.data)

C3_Witness ==
  /\ pc = "call"
  /\ deactivated_users # <<>>
  /\ HasEntry(DEACTIVATED_USERS.data, deactivated_users[Len(deactivated_users)])
  /\ ledgerAtStart # <<>>

\* ---------------------------------------------------------------- C4
\* C4 (as claimed): in every state, an identifier is on a line of the file
\* if and only if a call for it has returned success.
C4_LedgerIffSucceeded ==
  \A id \in Identifiers :
    id \in LedgerIds(DEACTIVATED_USERS.data) <=> id \in succeededEver

\* C4 (amended): in every state the file consists exactly of the entries
\* appended so far, each the id of a call that had returned success, and
\* the ids that succeeded without an entry are at most one per run that
\* ended between a success and its append, plus the one in flight.
C4_LedgerOnlySucceeded ==
  /\ DEACTIVATED_USERS.data = EntriesOf(recorded)
  /\ Range(recorded) \subseteq succeededEver
  /\ Cardinality(succeededEver \ Range(recorded))
       <= interrupted + (IF pc = "else" THEN 1 ELSE 0)

C4_Witness ==
  /\ pc = "loop"
  /\ interrupted = 1
  /\ recorded # <<>>
  /\ Cardinality(succeededEver \ Range(recorded)) = 1

\* ---------------------------------------------------------------- C5
RecordStates == {"skipped", "invalid", "succeeded", "failed"}

\* C5: in runs without a crash and without a file-system failure, a run
\* that reaches the summary has put each of its N records in exactly one of
\* skipped, invalid, succeeded, failed, the counts agree with the lists the
\* summary prints, no exception leaves the loop, and every started run
\* reaches the summary.
C5_TotalCoverage ==
  /\ [](pc = "done" =>
          /\ Len(source) = nrows
          /\ Len(states) = nrows
          /\ Range(states) \subseteq RecordStates
          /\ CountOf(states, "skipped") + CountOf(states, "invalid")
               + CountOf(states, "succeeded") + CountOf(states, "failed") = nrows
          /\ CountOf(states, "succeeded") = Len(deactivated_users)
          /\ CountOf(states, "invalid") + CountOf(states, "failed") = Len(failed)
          /\ summary = [printed |-> TRUE,
                        succeeded |-> Len(deactivated_users),
                        failed |-> Len(failed)])
  /\ [](pc # "aborted")
  /\ [](Running => <>(pc = "done"))

C5_Witness ==
  /\ pc = "done"
  /\ ledgerAtStart = <<>>
  /\ nrows = 3
  /\ {"invalid", "succeeded", "failed"} \subseteq Range(states)
  /\ summary.printed

\* ---------------------------------------------------------------- C6
\* The call failed: no response at all, or a 4xx or 5xx status.
IsCallError(r) ==
  \/ r.kind = "transport_error"
  \/ r.kind = "response" /\ r.status >= 400

\* C6: a call that ends with a transport failure or an error status goes to
\* the except clause without touching the ledger or the succeeded list, and
\* the except clause appends the record to the Failure Collection, leaves
\* the ledger alone and returns to the loop for the next record.
C6_CallErrorsRecovered ==
  [][ /\ (pc = "call" /\ pc' # "crashed" /\ IsCallError(response')) =>
           /\ pc' = "except"
           /\ UNCHANGED <<DEACTIVATED_USERS, recorded, deactivated_users,
                          succeededEver>>
      /\ (pc = "except" /\ pc' # "crashed") =>
           /\ failed' = Append(failed, user)
           /\ pc' = "loop"
           /\ UNCHANGED <<DEACTIVATED_USERS, recorded, deactivated_users,
                          succeededEver>> ]_vars

C6_Witness ==
  /\ pc = "loop"
  /\ Len(states) = 2
  /\ states[1] = "failed"
  /\ states[2] = "succeeded"
  /\ Len(failed) = 1
  /\ ~HasEntry(DEACTIVATED_USERS.data, failed[1].id)

C8_Non2xxFails ==
  (response.kind = "response" /\ pc \in {"else", "except"}) =>
    ((response.status >= 200 /\ response.status <= 299) <=> error = "ok")

\* ---------------------------------------------------------------- C9
\* C9 (as claimed): a run whose input yields no record never completes the
\* loop and prints the summary.
C9_EmptySourceAborts ==
  ~(pc = "done" /\ nrows = 0 /\ summary.printed)

\* ---------------------------------------------------------------- C10
RECURSIVE IsSubsequence(_, _)
IsSubsequence(p, q) ==
  IF p = <<>> THEN TRUE
  ELSE IF q = <<>> THEN FALSE
  ELSE IF Head(p) = Head(q) THEN IsSubsequence(Tail(p), Tail(q))
  ELSE IsSubsequence(p, Tail(q))

\* The records of this run that are neither skipped nor invalid, in source
\* order.
Processable ==
  SelectSeq(source,
            LAMBDA u : ~InCached(u.id, cached_processed) /\ HasValidFields(u))

\* C10: in every state the file is what it held at the start of the run
\* followed by the entries of a prefix of the ids that succeeded in this
\* run, in the order they succeeded; and while the process lives the calls
\* were issued for the records that are neither skipped nor invalid, in
\* source order, the successes being a subsequence of the calls.
C10_OrderingAndPrefix ==
  /\ \E k \in 0..Len(deactivated_users) :
       DEACTIVATED_USERS.data =
         ledgerAtStart \o EntriesOf(SubSeq(deactivated_users, 1, k))
  /\ pc \in {"loop", "call", "except", "else", "done", "aborted"} =>
       /\ Len(calls) = Len(Processable) - (IF pc = "call" THEN 1 ELSE 0)
       /\ \A i \in 1..Len(calls) : calls[i] = Processable[i].id
       /\ IsSubsequence(deactivated_users, calls)

C10_Witness ==
  /\ pc = "else"
  /\ ledgerAtStart # <<>>
  /\ Len(deactivated_users) = 2
  /\ deactivated_users[1] # deactivated_users[2]
  /\ DEACTIVATED_USERS.data =
       ledgerAtStart \o EntriesOf(SubSeq(deactivated_users, 1, 1))

\* ---------------------------------------------------------------- C11
\* C11: a step of the else clause that does not write the entry (and is not
\* the process being killed) ends the run with the OSError, adds nothing
\* to the Failure Collection and issues no call; after it nothing happens in
\* this run: the only step left is the start of another run.
C11_LedgerWriteAborts ==
  [][ /\ ( /\ pc = "else"
           /\ pc' # "crashed"
           /\ DEACTIVATED_USERS' = DEACTIVATED_USERS ) =>
             /\ pc' = "aborted"
             /\ error' = "OSError"
             /\ UNCHANGED <<failed, calls, requests, states, deactivated_users>>
      /\ pc = "aborted" =>
           /\ pc' = "loop"
           /\ runs' = runs + 1
           /\ calls' = <<>> ]_vars

C11_Witness ==
  /\ pc = "aborted"
  /\ error = "OSError"
  /\ rowsRead < MaxRows
  /\ failed = <<>>
  /\ Len(deactivated_users) = 2
  /\ Len(calls) = 2
  /\ DEACTIVATED_USERS.data = ledgerAtStart \o EntriesOf(AllButLast(deactivated_users))

\* ---------------------------------------------------------------- C12
\* C12: when two processes of the tool run interleaved on the same file, in
\* every state the file consists exactly of the whole lines written so far
\* by either process, in the order of the writes: every id either process
\* has written is there, and no line of the other process or of an earlier
\* run is overwritten or lost.
C12_ConcurrentAppends ==
  /\ DEACTIVATED_USERS.data = EntriesOf(recorded)
  /\ pc \in {"loop", "call", "except", "done"} =>
       \A i \in 1..Len(deactivated_users) :
         HasEntry(DEACTIVATED_USERS.data, deactivated_users[i])
  /\ other.pc \in {"loop", "call", "except", "done"} =>
       \A i \in 1..Len(other.deactivated_users) :
         HasEntry(DEACTIVATED_USERS.data, other.deactivated_users[i])
  /\ IsPrefix(ledgerAtStart, DEACTIVATED_USERS.data)
  /\ IsPrefix(other.ledgerAtStart, DEACTIVATED_USERS.data)

\* Both processes are running, the other one has written its line since this
\* one opened the file, and this one is about to write.
C12_Witness ==
  /\ pc = "write"
  /\ other.pc \in {"loop", "call"}
  /\ other.deactivated_users # <<>>
  /\ fpos < Len(DEACTIVATED_USERS.data)
  /\ user.id # other.deactivated_users[1]

\* ---------------------------------------------------------------- C13
\* The id of u is one of the strings loaded from the ledger at the start of
\* the run.
IsLedgered(u) == u.id.t = "str" /\ u.id.v \in Range(cached_processed)

\* C13: a step that reads a record whose id is in the ledger loaded at the
\* start of the run ends the record at once, whatever its three fields are:
\* no call, no request, and the succeeded list, the Failure Collection and
\* the file stay as they are; and a run all of whose records are ledgered
\* reports 0 succeeded and 0 failed.
C13_SkipHasNoEffect ==
  /\ [][ Len(source') = Len(source) + 1 =>
           (IsLedgered(source'[Len(source')]) =>
              /\ pc' = "loop"
              /\ UNCHANGED <<calls, requests, deactivated_users, failed,
                             DEACTIVATED_USERS, recorded, succeededEver>>) ]_vars
  /\ []( ( /\ pc = "done"
           /\ \A i \in 1..Len(source) : IsLedgered(source[i]) ) =>
         summary = [printed |-> TRUE, succeeded |-> 0, failed |-> 0] )

C13_Witness ==
  /\ pc = "done"
  /\ source # <<>>
  /\ \A i \in 1..Len(source) : IsLedgered(source[i])
  /\ \E i \in 1..Len(source) : ~HasValidFields(source[i])
  /\ states = [i \in 1..Len(source) |-> "skipped"]
  /\ summary = [printed |-> TRUE, succeeded |-> 0, failed |-> 0]
  /\ calls = <<>>

\* ---------------------------------------------------------------- C14
IsStr(x) == x.t = "str"

\* The first of first_name, email, last_name that is not a string, or
\* "none" when all three are.
FirstFailing(u) ==
  CASE ~IsStr(u.first_name) -> "first_name"
    [] IsStr(u.first_name) /\ ~IsStr(u.email) -> "email"
    [] IsStr(u.first_name) /\ IsStr(u.email) /\ ~IsStr(u.last_name) -> "last_name"
    [] OTHER -> "none"

\* C14: for every combination of the three fields, a step that reads a
\* record that is not skipped names in its message exactly the first of
\* first_name, email, last_name that is not a string; it goes on to the call
\* precisely when all three are strings (the empty string included), with no
\* message and the Failure Collection unchanged; otherwise the record is
\* appended to the Failure Collection once and the iteration is over.
C14_ValidatorOrder ==
  [][ Len(source') = Len(source) + 1 =>
        LET u == source'[Len(source')] IN
        ~IsLedgered(u) =>
          /\ reported' = FirstFailing(u)
          /\ (IsStr(u.first_name) /\ IsStr(u.email) /\ IsStr(u.last_name))
               <=> pc' = "call"
          /\ pc' = "call" => failed' = failed /\ user' = u
          /\ pc' # "call" => failed' = Append(failed, u) /\ pc' = "loop" ]_vars

\* A record with an empty first_name and both email and last_name invalid
\* was reported for its email and is the one entry of the Failure Collection.
C14_Witness ==
  /\ pc = "loop"
  /\ reported = "email"
  /\ Len(failed) = 1
  /\ failed[1].first_name = Str(<<>>)
  /\ ~IsStr(failed[1].email)
  /\ ~IsStr(failed[1].last_name)
  /\ CountOf(states, "invalid") = 1

\* ---------------------------------------------------------------- C15
\* C15 (as claimed): when requests.patch got no response, the exception
\* that deactivate_user hands to the loop is the transport error
\* (a requests RequestException).
C15_FailureCarriesCause ==
  (pc = "except" /\ response.kind = "transport_error") =>
    error = "RequestException"

\* ---------------------------------------------------------------- C16
\* C16 (as claimed): the file never holds the line of an identifier twice,
\* and no call is issued for an identifier whose line is already in the
\* file.
C16_NoDuplicates ==
  /\ LET lines == FileLines(DEACTIVATED_USERS.data) IN
     \A i, j \in 1..Len(lines) :
       (i # j /\ Len(lines[i]) > 1) => lines[i] # lines[j]
  /\ (pc \in {"else", "except"} /\ user.id \in Identifiers) =>
       ~HasEntry(DEACTIVATED_USERS.data, user.id)

\* ---------------------------------------------------------------- C17
\* C17 (as claimed): every id the loop has appended to the file is, as the
\* same string, in the list load_cached_processed returns for that file.
C17_RecordLoadRoundTrip ==
  \A i \in 1..Len(recorded) :
    recorded[i].v \in Range(load_cached_processed(DEACTIVATED_USERS))

\* ---------------------------------------------------------------- C18
MissingId(u) == u.id = None \/ u.id = Str(<<>>)

\* C18 (as claimed): no request is ever sent and no line is ever appended
\* for an id that is None or the empty string, and a record with such an
\* id and three valid fields that is not skipped ends as failed.
C18_MissingIdNeverSent ==
  /\ \A i \in 1..Len(requests) : requests[i] # None /\ requests[i] # Str(<<>>)
  /\ \A i \in 1..Len(recorded) : recorded[i] # None /\ recorded[i] # Str(<<>>)
  /\ \A i \in 1..Len(states) :
       (MissingId(source[i]) /\ HasValidFields(source[i]) /\ states[i] # "skipped")
         => states[i] = "failed"
====
